---- MODULE Spec2Model ----
(***************************************************************************)
(* bufrw::BufReaderWriter: one buffer shared by reads, writes and seeks    *)
(* over a single Read + Write + Seek stream (src/src/lib.rs).              *)
(*                                                                         *)
(* The adapter's fields are the variables inner, pos, n and buffer.  Every *)
(* public call is one action; its body is the handler of lib.rs written as *)
(* a function over a "machine" record m that carries the adapter's fields  *)
(* together with the effects of the call (the log of calls made on the     *)
(* underlying stream, the bytes copied into the caller's slice, the error  *)
(* returned, the debug assertions that would have failed).  A step that    *)
(* follows a `?` in the source is skipped once m.err is set.               *)
(*                                                                         *)
(* The underlying stream is an in-memory cursor over a byte vector, as in  *)
(* the repository's tests.  ref is the same call sequence applied to the   *)
(* stream without the adapter.                                             *)
(***************************************************************************)
EXTENDS Integers, Sequences, FiniteSets, TLC

\* ---------------------------------------------------------------- bounds
\* largest buffer capacity tried (capacities 0..MaxCap)
MaxCap == 3
\* longest slice handed to read / read_exact / write / write_all
MaxReq == 3
\* no call makes the stream, or a cursor, go beyond this offset
MaxLen == 4
\* length of the stream's initial contents
InitLen == 3
\* number of calls made on one adapter
MaxCalls == 4
\* number of calls made on one adapter over a stream that may fail
MaxFaultCalls == 3
\* the boundary scenario: capacity of the buffer, length of the stream
ScenarioCap == 8
ScenarioLen == 20

Capacities == 0..MaxCap
\* over a stream that may fail: no buffer, and one shorter than the longest
\* slice
FaultCapacities == {0, MaxCap - 1}
ReadLens == 1..MaxReq
WriteLens == 1..MaxReq
\* a written slice is <<base+1, ..., base+len>>: no two of its bytes are
\* equal and none equals a byte of the initial contents or a padding zero
WriteBases == {10, 20}
SeekStarts == 0..MaxLen
SeekEnds == (0 - MaxLen)..1
SeekCurrents == (0 - MaxLen)..MaxLen
\* fault plan of one call: <<k, l>>, the k-th call on the stream fails
\* (0: none) and every write on the stream accepts at most l bytes (0: all)
NoFault == <<0, 0>>
MaxStreamCalls == 3
FaultPlans == (0..MaxStreamCalls) \X {0, 1}

Min(a, b) == IF a <= b THEN a ELSE b
Max(a, b) == IF a >= b THEN a ELSE b
Zeros(k) == [i \in 1..k |-> 0]
Payload(base, len) == [i \in 1..len |-> base + i]
InitialBytes(len) == [i \in 1..len |-> i]

\* s with buf copied in at 0-based offset at; a gap beyond the end of s is
\* filled with zeros (Vec-backed cursor)
Splice(s, at, buf) ==
    LET L == Max(Len(s), at + Len(buf))
    IN [i \in 1..L |->
          IF i > at /\ i <= at + Len(buf) THEN buf[i - at]
          ELSE IF i <= Len(s) THEN s[i] ELSE 0]

VARIABLES
    inner,      \* the underlying stream T: [bytes, pos]
    pos,        \* BufReaderWriter.pos
    n,          \* BufReaderWriter.n
    buffer,     \* BufReaderWriter.buffer: [data, pos, filled, is_dirty]
    owner,      \* "adapter" while the adapter lives, then "dropped" / "caller"
    op,         \* the last call: kind, arguments, dispatch command, result
    io,         \* the calls the last call made on the underlying stream
    ref,        \* the unbuffered stream under the same call sequence
    clean,      \* every call so far returned Ok, on the adapter and on ref
    calls,      \* number of calls made so far
    flushes,    \* number of flush() calls made so far
    trip,       \* progress of a write_all / seek back / read_exact round trip
    walk,       \* progress of a first 1-byte read / seek forward / 2-byte read
    faulty      \* the underlying stream may fail or accept short writes

vars == <<inner, pos, n, buffer, owner, op, io, ref, clean, calls, flushes, trip, walk, faulty>>

\* ------------------------------------------------- the underlying stream
Failed(m) == m.err # "none"

\* Every call on the stream is logged as [call, by, at, len, ok]: the method,
\* the adapter step that made it, the stream's cursor before it, the length
\* of the slice (for a read: the number of bytes obtained) and its success.

\* one call on the stream is consumed from the fault plan
Tick(m) == [m EXCEPT !.fail = IF @ > 1 THEN @ - 1 ELSE 0]

Fails(m) == m.fail = 1

Log(m, e) == [m EXCEPT !.io = Append(@, e)]

\* T::seek
InnerSeek(m, whence, off, by) ==
    LET target == CASE whence = "Start" -> off
                    [] whence = "End" -> Len(m.inner.bytes) + off
                    [] whence = "Current" -> m.inner.pos + off
        e == [call |-> "seek", by |-> by, at |-> m.inner.pos, len |-> 0, ok |-> FALSE]
    IN IF Failed(m) THEN m
       ELSE IF Fails(m) THEN Log([m EXCEPT !.err = "io", !.fail = 0], e)
       ELSE IF target < 0 THEN Log([Tick(m) EXCEPT !.err = "invalid_input"], e)
       ELSE Log([Tick(m) EXCEPT !.inner.pos = target, !.r = target],
                [e EXCEPT !.ok = TRUE])

\* T::read: the bytes from the cursor on, at most len of them
InnerRead(m, len, by) ==
    LET p == m.inner.pos
        c == Min(len, Max(0, Len(m.inner.bytes) - p))
        e == [call |-> "read", by |-> by, at |-> p, len |-> c, ok |-> FALSE]
    IN IF Failed(m) THEN m
       ELSE IF Fails(m) THEN Log([m EXCEPT !.err = "io", !.fail = 0], e)
       ELSE Log([Tick(m) EXCEPT !.inner.pos = p + c, !.r = c,
                                !.rd = SubSeq(m.inner.bytes, p + 1, p + c)],
                [e EXCEPT !.ok = TRUE])

\* one T::write call, not logged: accepts the whole slice, or its first
\* m.limit bytes when the stream accepts short writes
RawWrite(m, buf) ==
    LET p == m.inner.pos
        k == IF m.limit > 0 THEN Min(m.limit, Len(buf)) ELSE Len(buf)
    IN IF Failed(m) THEN m
       ELSE IF Fails(m) THEN [m EXCEPT !.err = "io", !.fail = 0]
       ELSE [Tick(m) EXCEPT
               !.inner.bytes = IF k = 0 THEN @ ELSE Splice(@, p, SubSeq(buf, 1, k)),
               !.inner.pos = p + k,
               !.r = k]

\* the log entry of a write or write_all that left the machine w
LogWrite(w, call, by, at, len) ==
    Log(w, [call |-> call, by |-> by, at |-> at, len |-> len, ok |-> ~Failed(w)])

\* T::write
InnerWrite(m, buf, by) ==
    IF Failed(m) THEN m
    ELSE LogWrite(RawWrite(m, buf), "write", by, m.inner.pos, Len(buf))

RECURSIVE WriteLoop(_, _)
\* the loop of std's Write::write_all: write until the slice is empty
WriteLoop(m, buf) ==
    IF Failed(m) \/ buf = <<>> THEN m
    ELSE LET w == RawWrite(m, buf)
         IN IF Failed(w) THEN w ELSE WriteLoop(w, SubSeq(buf, w.r + 1, Len(buf)))

\* T::write_all
InnerWriteAll(m, buf, by) ==
    IF Failed(m) THEN m
    ELSE LogWrite(WriteLoop(m, buf), "write_all", by, m.inner.pos, Len(buf))

\* T::flush
InnerFlush(m, by) ==
    LET e == [call |-> "flush", by |-> by, at |-> m.inner.pos, len |-> 0, ok |-> FALSE]
    IN IF Failed(m) THEN m
       ELSE IF Fails(m) THEN Log([m EXCEPT !.err = "io", !.fail = 0], e)
       ELSE Log(Tick(m), [e EXCEPT !.ok = TRUE])

\* ------------------------------------------------------------ struct Buffer
Buffer_with_capacity(c) ==
    [data |-> Zeros(c), pos |-> 0, filled |-> 0, is_dirty |-> FALSE]

has_readable_bytes_left(b) == b.pos # b.filled
num_readable_bytes_left(b) == b.filled - b.pos
capacity(b) == Len(b.data)
num_writable_bytes_left(b) == capacity(b) - b.pos
num_valid_bytes(b) == b.filled

\* a debug assertion: records its name when the condition is false
DebugAssert(m, cond, name) == IF cond THEN m ELSE [m EXCEPT !.dbg = @ \cup {name}]

\* the Ok(k) that ends a step
OkCount(m, k) == IF Failed(m) THEN m ELSE [m EXCEPT !.r = k]

\* the tail of Buffer::fill_from: the bytes source.read put into data, then
\* filled, pos and is_dirty
Buffer_filled_keeps_cursor(s) ==
    IF Failed(s) THEN s
    ELSE [s EXCEPT
            !.buffer.data = [i \in 1..Len(@) |-> IF i <= s.r THEN s.rd[i] ELSE @[i]],
            !.buffer.filled = s.r,
            !.buffer.is_dirty = FALSE]
Buffer_filled(s) ==
    IF Failed(s) THEN s
    ELSE [s EXCEPT
            !.buffer.data = [i \in 1..Len(@) |-> IF i <= s.r THEN s.rd[i] ELSE @[i]],
            !.buffer.filled = s.r,
            !.buffer.pos = 0,
            !.buffer.is_dirty = FALSE]

\* Buffer::fill_from(&mut self.inner)
Buffer_fill_from(m) ==
    IF Failed(m) THEN m
    ELSE Buffer_filled(InnerRead(DebugAssert(m, ~has_readable_bytes_left(m.buffer), "fill_from"),
                                 capacity(m.buffer), "fill"))

\* Buffer::set_position
Buffer_set_position(m, p) ==
    IF Failed(m) THEN m
    ELSE [DebugAssert(m, p < m.buffer.filled, "set_position")
            EXCEPT !.buffer.pos = Min(p, m.buffer.filled)]

\* Buffer::dump(&mut self.inner): write_all of data[..filled], returns filled
Buffer_dump(m) ==
    OkCount(InnerWriteAll(m, SubSeq(m.buffer.data, 1, m.buffer.filled), "dump"),
            m.buffer.filled)

\* Buffer::clear
Buffer_clear_keeps_cursor(b) == [b EXCEPT !.filled = 0, !.is_dirty = FALSE]
Buffer_clear(b) == [b EXCEPT !.pos = 0, !.filled = 0, !.is_dirty = FALSE]

\* self.buffer.clear()
ClearBuffer(m) == IF Failed(m) THEN m ELSE [m EXCEPT !.buffer = Buffer_clear(@)]

\* Buffer::read(dst) with dst a slice of len bytes: the copied bytes are
\* appended to m.out, the part of the caller's slice filled so far
Buffer_read(m, len) ==
    LET b == m.buffer
        k == Min(num_readable_bytes_left(b), len)
    IN IF Failed(m) THEN m
       ELSE [DebugAssert(m, b.pos + k <= Len(b.data), "read")
               EXCEPT !.out = @ \o SubSeq(b.data, b.pos + 1, b.pos + k),
                      !.buffer.pos = b.pos + k,
                      !.r = k]

\* Buffer::write(src)
Buffer_write_stays_clean(m, src) ==
    LET b == m.buffer
        k == Min(num_writable_bytes_left(b), Len(src))
        filled == IF b.pos + k > b.filled THEN b.pos + k ELSE b.filled
    IN IF Failed(m) THEN m
       ELSE IF k = 0 THEN [m EXCEPT !.r = 0]
       ELSE [m EXCEPT
                 !.buffer.filled = filled,
                 !.buffer.data = [i \in 1..Len(@) |->
                                    IF i > b.pos /\ i <= b.pos + k THEN src[i - b.pos] ELSE @[i]],
                 !.buffer.pos = b.pos + k,
                 !.r = k]
Buffer_write(m, src) ==
    LET b == m.buffer
        k == Min(num_writable_bytes_left(b), Len(src))
        filled == IF b.pos + k > b.filled THEN b.pos + k ELSE b.filled
    IN IF Failed(m) THEN m
       ELSE IF k = 0 THEN [m EXCEPT !.r = 0]
       ELSE [DebugAssert(DebugAssert(m, b.pos + k <= capacity(b), "write:capacity"),
                         b.pos + k <= filled, "write:filled")
               EXCEPT
                 !.buffer.filled = filled,
                 !.buffer.data = [i \in 1..Len(@) |->
                                    IF i > b.pos /\ i <= b.pos + k THEN src[i - b.pos] ELSE @[i]],
                 !.buffer.pos = b.pos + k,
                 !.buffer.is_dirty = TRUE,
                 !.r = k]

\* Buffer::get_read_command
get_read_command_never_direct(b, len) ==
    IF has_readable_bytes_left(b)
    THEN [tag |-> "Read", n |-> Min(len, num_readable_bytes_left(b)), dump |-> FALSE]
    ELSE [tag |-> "FillRead", n |-> 0, dump |-> b.is_dirty]
get_read_command(b, len) ==
    IF has_readable_bytes_left(b)
    THEN [tag |-> "Read", n |-> Min(len, num_readable_bytes_left(b)), dump |-> FALSE]
    ELSE IF len >= capacity(b)
    THEN [tag |-> "ReadDirect", n |-> 0, dump |-> b.is_dirty]
    ELSE [tag |-> "FillRead", n |-> 0, dump |-> b.is_dirty]

\* Buffer::get_read_exact_command
get_read_exact_command_fills_when_drained(b, len) ==
    IF len >= capacity(b)
    THEN IF has_readable_bytes_left(b)
         THEN [tag |-> "ReadReadDirect", split |-> num_readable_bytes_left(b), dump |-> b.is_dirty]
         ELSE [tag |-> "ReadDirect", split |-> 0, dump |-> b.is_dirty]
    ELSE IF num_readable_bytes_left(b) >= len
    THEN [tag |-> "Read", split |-> 0, dump |-> FALSE]
    ELSE IF num_readable_bytes_left(b) > 0
    THEN [tag |-> "ReadFillRead", split |-> num_readable_bytes_left(b), dump |-> b.is_dirty]
    ELSE [tag |-> "FillRead", split |-> 0, dump |-> b.is_dirty]
get_read_exact_command(b, len) ==
    IF len >= capacity(b)
    THEN IF has_readable_bytes_left(b)
         THEN [tag |-> "ReadReadDirect", split |-> num_readable_bytes_left(b), dump |-> b.is_dirty]
         ELSE [tag |-> "ReadDirect", split |-> 0, dump |-> b.is_dirty]
    ELSE IF num_readable_bytes_left(b) >= len
    THEN [tag |-> "Read", split |-> 0, dump |-> FALSE]
    ELSE IF num_readable_bytes_left(b) < len
    THEN [tag |-> "ReadFillRead", split |-> num_readable_bytes_left(b), dump |-> b.is_dirty]
    ELSE [tag |-> "FillRead", split |-> 0, dump |-> b.is_dirty]

\* Buffer::get_write_exact_command
get_write_exact_command_always_splits(b, len) ==
    IF num_writable_bytes_left(b) >= len
    THEN [tag |-> "Write", n |-> 0]
    ELSE [tag |-> "WriteDumpWrite", n |-> num_writable_bytes_left(b)]
get_write_exact_command(b, len) ==
    IF len >= capacity(b)
    THEN IF b.is_dirty /\ num_valid_bytes(b) # 0
         THEN [tag |-> "DumpWriteDirect", n |-> 0]
         ELSE [tag |-> "WriteDirect", n |-> 0]
    ELSE IF num_writable_bytes_left(b) >= len
    THEN [tag |-> "Write", n |-> 0]
    ELSE [tag |-> "WriteDumpWrite", n |-> num_writable_bytes_left(b)]

\* ------------------------------------------------- struct BufReaderWriter
\* BufReaderWriter::with_capacity
with_capacity(c) == [pos |-> 0, n |-> 0, buffer |-> Buffer_with_capacity(c)]

\* u64 arithmetic wraps in a release build; every offset of the model is
\* far below the modulus, which stands for 2^64
Modulus == 65536
Wrap(x) == x % Modulus
\* `as i64` of a wrapped value
AsI64(x) == IF x >= Modulus \div 2 THEN x - Modulus ELSE x

\* BufReaderWriter::start_position_in_source
start_position_in_source(m) == Wrap(m.pos - m.n)

\* BufReaderWriter::position
position(m) == Wrap(start_position_in_source(m) + m.buffer.pos)

\* self.pos = p, for the p a seek of the stream returned
SetPos(s) == IF Failed(s) THEN s ELSE [s EXCEPT !.pos = s.r]

\* self.n = k
SetN(m, k) == IF Failed(m) THEN m ELSE [m EXCEPT !.n = k]

\* debug_assert_eq!(self.pos - self.n as u64, p); self.pos = p;
AtWindowStart(s) ==
    IF Failed(s) THEN s
    ELSE SetPos(DebugAssert(s, s.pos - s.n = s.r, "flush_buffer:pos"))

\* the seek back to the start of the window that opens flush_buffer
SeekToWindowStart(m) ==
    IF Failed(m) \/ m.n = 0 THEN m
    ELSE AtWindowStart(InnerSeek(m, "Current", 0 - m.n, "flush_buffer"))

\* the tail of flush_buffer, d the machine after the dump
Dumped(d) ==
    IF Failed(d) THEN d
    ELSE [DebugAssert(d, d.r >= d.n, "flush_buffer:n") EXCEPT !.pos = @ + d.r, !.n = d.r]

\* BufReaderWriter::flush_buffer
flush_buffer(m) == Dumped(Buffer_dump(SeekToWindowStart(m)))

\* self.flush_buffer()?; self.buffer.clear(); self.n = 0;
FlushClear(m) == SetN(ClearBuffer(flush_buffer(m)), 0)

\* if dump_before { self.flush_buffer()?; self.buffer.clear(); self.n = 0; }
DumpIf(m, dump) == IF dump THEN FlushClear(m) ELSE m

\* self.pos += n, for the n bytes a read of the stream returned
AdvancePos_stays(f) == f
AdvancePos(f) == IF Failed(f) THEN f ELSE [f EXCEPT !.pos = @ + f.r]

\* self.pos += n; self.n = n;
AdvancePosSetN_keeps_n(f) == IF Failed(f) THEN f ELSE [f EXCEPT !.pos = @ + f.r]
AdvancePosSetN(f) == IF Failed(f) THEN f ELSE [f EXCEPT !.pos = @ + f.r, !.n = f.r]

\* the bytes a read of the stream returned are in the caller's slice
ToCaller(s) == IF Failed(s) THEN s ELSE [s EXCEPT !.out = @ \o s.rd]

\* let n = self.inner.read(buf)?; self.pos += n as u64;
ReadDirect(m, len) == AdvancePos(ToCaller(InnerRead(m, len, "direct")))

\* impl Read: read(buf) with buf a slice of len bytes
read(m, len) ==
    LET cmd == get_read_command(m.buffer, len)
    IN CASE cmd.tag = "Read" -> Buffer_read(m, cmd.n)
         [] cmd.tag = "FillRead" ->
              Buffer_read(AdvancePosSetN(Buffer_fill_from(DumpIf(m, cmd.dump))), len)
         [] cmd.tag = "ReadDirect" -> ReadDirect(DumpIf(m, cmd.dump), len)

\* impl Read: read_exact(buf); every branch ends in Ok(())
read_exact_refills_first(m, len) ==
    LET cmd == get_read_exact_command(m.buffer, len)
    IN CASE cmd.tag = "Read" -> Buffer_read(m, len)
         [] cmd.tag = "ReadFillRead" ->
              Buffer_read(AdvancePosSetN(Buffer_fill_from(DumpIf(m, cmd.dump))), len)
         [] cmd.tag = "FillRead" ->
              Buffer_read(AdvancePos(Buffer_fill_from(DumpIf(m, cmd.dump))), len)
         [] cmd.tag = "ReadDirect" -> ReadDirect(DumpIf(m, cmd.dump), len)
         [] cmd.tag = "ReadReadDirect" ->
              ReadDirect(DumpIf(Buffer_read(m, cmd.split), cmd.dump), len - cmd.split)
read_exact(m, len) ==
    LET cmd == get_read_exact_command(m.buffer, len)
    IN CASE cmd.tag = "Read" -> Buffer_read(m, len)
         [] cmd.tag = "ReadFillRead" ->
              Buffer_read(AdvancePosSetN(Buffer_fill_from(
                              DumpIf(Buffer_read(m, cmd.split), cmd.dump))),
                          len - cmd.split)
         [] cmd.tag = "FillRead" ->
              Buffer_read(AdvancePos(Buffer_fill_from(DumpIf(m, cmd.dump))), len)
         [] cmd.tag = "ReadDirect" -> ReadDirect(DumpIf(m, cmd.dump), len)
         [] cmd.tag = "ReadReadDirect" ->
              ReadDirect(DumpIf(Buffer_read(m, cmd.split), cmd.dump), len - cmd.split)

\* impl Write: write(buf)
write(m, buf) ==
    LET cmd == get_write_exact_command(m.buffer, Len(buf))
    IN CASE cmd.tag = "Write" -> Buffer_write(m, buf)
         [] cmd.tag = "WriteDumpWrite" ->
              OkCount(Buffer_write(FlushClear(Buffer_write(m, SubSeq(buf, 1, cmd.n))),
                                   SubSeq(buf, cmd.n + 1, Len(buf))),
                      Len(buf))
         [] cmd.tag = "DumpWriteDirect" -> InnerWrite(FlushClear(m), buf, "direct")
         [] cmd.tag = "WriteDirect" -> InnerWrite(m, buf, "direct")

\* debug_assert_eq!(_n, buf.len())
AssertWroteAll(w, len) ==
    IF Failed(w) THEN w ELSE DebugAssert(w, w.r = len, "write_all")

\* impl Write: write_all(buf); the comparison with buf.len() is a debug
\* assertion, the result is Ok(()) whenever write returned Ok
write_all(m, buf) == AssertWroteAll(write(m, buf), Len(buf))

\* impl Write: flush
flush(m) == InnerFlush(FlushClear(m), "flush")

\* the Ok(self.position()) that ends a branch of seek
OkPosition(m) == IF Failed(m) THEN m ELSE [m EXCEPT !.r = position(m)]

\* if self.buffer.is_dirty { self.flush_buffer()?; }
FlushIfDirty(m) == IF m.buffer.is_dirty THEN flush_buffer(m) ELSE m

\* in_mem_range.contains(&pos) of the from-start branch
in_mem_range_excludes_start(m, p) ==
    /\ start_position_in_source(m) < p
    /\ p < Wrap(start_position_in_source(m) + num_valid_bytes(m.buffer))
in_mem_range(m, p) ==
    /\ start_position_in_source(m) <= p
    /\ p < Wrap(start_position_in_source(m) + num_valid_bytes(m.buffer))

\* abs_d > self.buffer.position(): a backward seek leaves the buffer
seeks_before_buffer_off_by_one(m, abs_d) == abs_d >= m.buffer.pos
seeks_before_buffer(m, abs_d) == abs_d > m.buffer.pos

\* abs_d as u64 > self.position(): a backward seek goes before offset 0
seeks_before_start_off_by_one(m, abs_d) == abs_d > position(m) + 1
seeks_before_start(m, abs_d) == abs_d > position(m)

\* amount >= self.buffer.num_readable_bytes_left(): a forward seek leaves
\* the buffer
seeks_past_buffer(m, amount) == amount >= num_readable_bytes_left(m.buffer)

\* self.pos = self.inner.seek(..)?; self.n = 0; Ok(self.position())
Sought_keeps_n(s) == OkPosition(SetPos(s))
Sought(s) == OkPosition(SetN(SetPos(s), 0))

\* impl Seek: seek(SeekFrom::Start(p))
seek_start(m, p) ==
    IF in_mem_range(m, p)
    THEN OkPosition(Buffer_set_position(m, p - start_position_in_source(m)))
    ELSE Sought(InnerSeek(ClearBuffer(FlushIfDirty(m)), "Start", p, "seek"))

\* impl Seek: seek(SeekFrom::End(o))
seek_end(m, o) == Sought(InnerSeek(ClearBuffer(FlushIfDirty(m)), "End", o, "seek"))

\* the seek of the stream of a backward seek that leaves the buffer
SeekBackward(f, direction) ==
    IF Failed(f) THEN f
    ELSE InnerSeek(f, "Current", direction - (f.n - f.buffer.pos), "seek")

\* self.buffer.clear(); self.n = 0; Ok(self.pos)
SoughtBackward(s) == IF Failed(s) THEN s ELSE SetN(ClearBuffer(SetPos(s)), 0)

\* the seek of the stream of a forward seek that leaves the buffer, c the
\* machine after the buffer was cleared
SeekForward(c, saved_positon, direction) ==
    LET new_position == AsI64(position(c))
    IN IF Failed(c) THEN c
       ELSE InnerSeek(c, "Current", saved_positon - new_position + direction, "seek")

\* impl Seek: seek(SeekFrom::Current(direction))
seek_current(m, direction) ==
    LET abs_d == 0 - direction
        saved_positon == AsI64(position(m))
    IN IF direction = 0 THEN OkPosition(m)
       ELSE IF direction < 0
       THEN IF seeks_before_buffer(m, abs_d)
            THEN IF seeks_before_start(m, abs_d)
                 THEN [m EXCEPT !.err = "seeking_before_start"]
                 ELSE SoughtBackward(SeekBackward(FlushIfDirty(m), direction))
            ELSE OkPosition(Buffer_set_position(m, m.buffer.pos - abs_d))
       ELSE IF seeks_past_buffer(m, direction)
            THEN OkPosition(SetPos(SeekForward(SetN(ClearBuffer(FlushIfDirty(m)), 0),
                                               saved_positon, direction)))
            ELSE OkPosition(Buffer_set_position(m, m.buffer.pos + direction))

\* impl Seek: seek
seek(m, whence, off) ==
    CASE whence = "Start" -> seek_start(m, off)
      [] whence = "End" -> seek_end(m, off)
      [] whence = "Current" -> seek_current(m, off)

\* impl Seek: stream_position
stream_position_asks_stream(m) == Sought(InnerSeek(m, "Current", 0, "seek"))
stream_position(m) == OkPosition(m)

\* the branch of seek taken (for the record of the call)
seek_command(m, whence, off) ==
    CASE whence = "Start" -> IF in_mem_range(m, off) THEN "InBuffer" ELSE "Delegate"
      [] whence = "End" -> "Delegate"
      [] whence = "Current" ->
           IF off = 0 THEN "Position"
           ELSE IF off < 0
           THEN IF seeks_before_buffer(m, 0 - off)
                THEN IF seeks_before_start(m, 0 - off) THEN "BeforeStart" ELSE "Delegate"
                ELSE "InBuffer"
           ELSE IF seeks_past_buffer(m, off) THEN "Delegate" ELSE "InBuffer"

\* let _ = ..: the result is discarded
Discard(f) == [f EXCEPT !.err = "none", !.swallowed = f.err]

\* impl Drop: drop; the result of flush is discarded
drop(m) == IF m.buffer.is_dirty THEN Discard(flush(m)) ELSE m

\* the `?` of into_inner returns the error and drops self; Ok(inner) does
\* not drop it
Unwrap(f) ==
    IF Failed(f) THEN [drop([f EXCEPT !.err = "none"]) EXCEPT !.err = f.err]
    ELSE f

\* BufReaderWriter::into_inner; on the error path self goes out of scope
\* and is dropped
into_inner_skips_flush(m) == Unwrap(m)
into_inner(m) == Unwrap(FlushIfDirty(m))

\* -------------------------------------------------- the unbuffered stream
\* Each operator gives [ref, ok, out]: the stream after the call, whether
\* the call returned Ok, and the bytes it returned.

\* Read::read on the bare stream, taken as far as the adapter's count k
\* (a read may return fewer bytes than asked for)
RefRead(rf, len, k) ==
    LET avail == Max(0, Len(rf.bytes) - rf.pos)
        c == Min(len, avail)
    IN [ref |-> [rf EXCEPT !.pos = @ + Min(k, c)], ok |-> TRUE,
        out |-> SubSeq(rf.bytes, rf.pos + 1, rf.pos + c)]

\* Read::read_exact on the bare stream
RefReadExact(rf, len) ==
    LET avail == Max(0, Len(rf.bytes) - rf.pos)
    IN IF avail >= len
       THEN [ref |-> [rf EXCEPT !.pos = @ + len], ok |-> TRUE,
             out |-> SubSeq(rf.bytes, rf.pos + 1, rf.pos + len)]
       ELSE [ref |-> [rf EXCEPT !.pos = Max(@, Len(rf.bytes))], ok |-> FALSE, out |-> <<>>]

\* Write::write / write_all on the bare stream of the first k bytes of buf
RefWrite(rf, buf, k) ==
    [ref |-> [bytes |-> IF k = 0 THEN rf.bytes ELSE Splice(rf.bytes, rf.pos, SubSeq(buf, 1, k)),
              pos |-> rf.pos + k],
     ok |-> TRUE, out |-> <<>>]

\* Seek::seek on the bare stream
RefSeek(rf, whence, off) ==
    LET target == CASE whence = "Start" -> off
                    [] whence = "End" -> Len(rf.bytes) + off
                    [] whence = "Current" -> rf.pos + off
    IN IF target < 0 THEN [ref |-> rf, ok |-> FALSE, out |-> <<>>]
       ELSE [ref |-> [rf EXCEPT !.pos = target], ok |-> TRUE, out |-> <<>>]

RefSame(rf) == [ref |-> rf, ok |-> TRUE, out |-> <<>>]

\* ------------------------------------------------------------ the actions
NoCall ==
    [kind |-> "new", whence |-> "", off |-> 0, len |-> 0, buf |-> <<>>, cmd |-> "",
     err |-> "none", r |-> 0, out |-> <<>>, expect |-> <<>>, refok |-> TRUE,
     dbg |-> {}, swallowed |-> "none"]

\* the machine a call starts from
Machine(plan) ==
    [inner |-> inner, pos |-> pos, n |-> n, buffer |-> buffer,
     io |-> <<>>, out |-> <<>>, rd |-> <<>>, r |-> 0, err |-> "none", dbg |-> {},
     swallowed |-> "none", fail |-> plan[1], limit |-> plan[2]]

Plans == IF faulty THEN FaultPlans ELSE {NoFault}

\* the offsets stay within the model's bound; a stream that starts longer
\* does not grow
Bounded(m, rf) ==
    LET lim == Max(MaxLen, Len(inner.bytes))
    IN /\ Len(m.inner.bytes) <= lim /\ m.inner.pos <= lim
       /\ Len(rf.bytes) <= lim /\ rf.pos <= lim

NoTrip == [stage |-> 0, at |-> 0, buf |-> <<>>, empty |-> FALSE]

\* stage 1: write_all(buf) returned Ok, at = position() before it, empty:
\* the buffer held no valid byte before it;
\* stage 2: then seek(Start(at)) returned Ok;
\* stage 3: then read_exact of Len(buf) bytes returned Ok
TripAfter(m, call) ==
    IF Failed(m) THEN NoTrip
    ELSE IF call.kind = "write_all"
    THEN [stage |-> 1, at |-> position(Machine(NoFault)), buf |-> call.buf,
          empty |-> buffer.filled = 0]
    ELSE IF trip.stage = 1 /\ call.kind = "seek" /\ call.whence = "Start" /\ call.off = trip.at
    THEN [trip EXCEPT !.stage = 2]
    ELSE IF trip.stage = 2 /\ call.kind = "read_exact" /\ call.len = Len(trip.buf)
    THEN [trip EXCEPT !.stage = 3]
    ELSE NoTrip

NoWalk == [stage |-> 0, off |-> 0]

\* stage 1: the first call on the adapter read 1 byte; stage 2: then
\* seek(Current(off)) with off > 0 returned Ok; stage 3: then a read or
\* read_exact of 2 bytes returned Ok
WalkAfter(m, call) ==
    IF Failed(m) THEN NoWalk
    ELSE IF calls = 0 /\ call.kind \in {"read", "read_exact"} /\ call.len = 1
    THEN [stage |-> 1, off |-> 0]
    ELSE IF walk.stage = 1 /\ call.kind = "seek" /\ call.whence = "Current" /\ call.off > 0
    THEN [stage |-> 2, off |-> call.off]
    ELSE IF walk.stage = 2 /\ call.kind \in {"read", "read_exact"} /\ call.len = 2
    THEN [walk EXCEPT !.stage = 3]
    ELSE NoWalk

\* the same call on the bare stream; a write is taken as far as the count
\* the adapter returned, a read as far as the count it returned
RefCall(call, k) ==
    CASE call.kind = "read" -> RefRead(ref, call.len, k)
      [] call.kind = "read_exact" -> RefReadExact(ref, call.len)
      [] call.kind = "write" -> RefWrite(ref, call.buf, k)
      [] call.kind = "write_all" -> RefWrite(ref, call.buf, call.len)
      [] call.kind = "seek" -> RefSeek(ref, call.whence, call.off)
      [] OTHER -> RefSame(ref)

\* what becomes of the adapter: drop and into_inner consume it
NextOwner(m, call) ==
    CASE call.kind = "drop" -> "dropped"
      [] call.kind = "into_inner" -> IF Failed(m) THEN "dropped" ELSE "caller"
      [] OTHER -> "adapter"

\* the number of calls a behaviour makes
CallBudget == IF faulty THEN MaxFaultCalls ELSE MaxCalls

\* the call's effects become the next state; on an error the bare stream
\* is left alone
Commit(m, call) ==
    LET rr == IF Failed(m) THEN RefSame(ref) ELSE RefCall(call, m.r)
    IN /\ owner = "adapter"
       /\ calls < CallBudget
       /\ calls' = calls + 1
       /\ Bounded(m, rr.ref)
       /\ inner' = m.inner
       /\ pos' = m.pos
       /\ n' = m.n
       /\ buffer' = m.buffer
       /\ io' = m.io
       /\ owner' = NextOwner(m, call)
       /\ op' = [call EXCEPT !.err = m.err, !.r = m.r, !.out = m.out, !.dbg = m.dbg,
                             !.swallowed = m.swallowed,
                             !.expect = rr.out, !.refok = rr.ok]
       /\ ref' = rr.ref
       /\ clean' = (clean /\ ~Failed(m) /\ rr.ok /\ m.dbg = {})
       /\ flushes' = IF call.kind = "flush" THEN flushes + 1 ELSE flushes
       /\ trip' = TripAfter(m, call)
       /\ walk' = WalkAfter(m, call)
       /\ UNCHANGED faulty

CallRead ==
    \E len \in ReadLens, plan \in Plans :
        Commit(read(Machine(plan), len),
               [NoCall EXCEPT !.kind = "read", !.len = len,
                              !.cmd = get_read_command(buffer, len).tag])

CallReadExact ==
    \E len \in ReadLens, plan \in Plans :
        Commit(read_exact(Machine(plan), len),
               [NoCall EXCEPT !.kind = "read_exact", !.len = len,
                              !.cmd = get_read_exact_command(buffer, len).tag])

CallWrite ==
    \E len \in WriteLens, base \in WriteBases, plan \in Plans :
        Commit(write(Machine(plan), Payload(base, len)),
               [NoCall EXCEPT !.kind = "write", !.len = len, !.buf = Payload(base, len),
                              !.cmd = get_write_exact_command(buffer, len).tag])

CallWriteAll ==
    \E len \in WriteLens, base \in WriteBases, plan \in Plans :
        Commit(write_all(Machine(plan), Payload(base, len)),
               [NoCall EXCEPT !.kind = "write_all", !.len = len, !.buf = Payload(base, len),
                              !.cmd = get_write_exact_command(buffer, len).tag])

CallFlush ==
    \E plan \in Plans :
        Commit(flush(Machine(plan)), [NoCall EXCEPT !.kind = "flush"])

\* to the last byte of a full buffer, and just past it
BoundarySeeks == {capacity(buffer) - 2, capacity(buffer) - 1}

SeekArgs ==
    ({"Start"} \X SeekStarts) \cup ({"End"} \X SeekEnds)
        \cup ({"Current"} \X (SeekCurrents \cup BoundarySeeks))

CallSeek ==
    \E a \in SeekArgs, plan \in Plans :
        Commit(seek(Machine(plan), a[1], a[2]),
               [NoCall EXCEPT !.kind = "seek", !.whence = a[1], !.off = a[2],
                              !.cmd = seek_command(Machine(plan), a[1], a[2])])

CallDrop ==
    \E plan \in Plans :
        Commit(drop(Machine(plan)), [NoCall EXCEPT !.kind = "drop"])

CallIntoInner ==
    \E plan \in Plans :
        Commit(into_inner(Machine(plan)), [NoCall EXCEPT !.kind = "into_inner"])

\* BufReaderWriter::with_capacity over a stream whose cursor is at 0
InitWith(f, lens, caps) ==
    /\ \E len \in lens : inner = [bytes |-> InitialBytes(len), pos |-> 0]
    /\ \E c \in caps :
         /\ pos = with_capacity(c).pos
         /\ n = with_capacity(c).n
         /\ buffer = with_capacity(c).buffer
    /\ owner = "adapter"
    /\ op = NoCall
    /\ io = <<>>
    /\ ref = inner
    /\ clean = TRUE
    /\ calls = 0
    /\ flushes = 0
    /\ trip = NoTrip
    /\ walk = NoWalk
    /\ faulty = f

Init == InitWith(FALSE, {0, InitLen}, Capacities)

Next ==
    \/ CallRead
    \/ CallReadExact
    \/ CallWrite
    \/ CallWriteAll
    \/ CallFlush
    \/ CallSeek
    \/ CallDrop
    \/ CallIntoInner

\* the stream never fails and accepts every write in full
Spec == Init /\ [][Next]_vars

\* the stream may fail and may accept short writes
FaultInit == InitWith(TRUE, {InitLen}, FaultCapacities)

FaultSpec == FaultInit /\ [][Next]_vars

\* pub fn flush_buffer called by the user of the adapter
CallFlushBuffer ==
    \E plan \in Plans :
        Commit(flush_buffer(Machine(plan)), [NoCall EXCEPT !.kind = "flush_buffer"])

FlushBufferNext ==
    \/ Next
    \/ CallFlushBuffer

\* the calls of Spec and direct calls of flush_buffer
FlushBufferSpec == Init /\ [][FlushBufferNext]_vars

\* stream_position called by the user of the adapter
CallStreamPosition ==
    \E plan \in Plans :
        Commit(stream_position(Machine(plan)), [NoCall EXCEPT !.kind = "stream_position"])

PositionNext ==
    \/ Next
    \/ CallStreamPosition

\* the calls of Spec and calls of stream_position
PositionSpec == Init /\ [][PositionNext]_vars

\* the offsets, other than 0, of the stream's cursor when the adapter is
\* built over it
StartCursors == 1..InitLen

\* BufReaderWriter::with_capacity over a stream of InitLen bytes whose
\* cursor is not at 0
OffsetInit ==
    /\ \E c0 \in StartCursors : inner = [bytes |-> InitialBytes(InitLen), pos |-> c0]
    /\ \E c \in Capacities :
         /\ pos = with_capacity(c).pos
         /\ n = with_capacity(c).n
         /\ buffer = with_capacity(c).buffer
    /\ owner = "adapter"
    /\ op = NoCall
    /\ io = <<>>
    /\ ref = inner
    /\ clean = TRUE
    /\ calls = 0
    /\ flushes = 0
    /\ trip = NoTrip
    /\ walk = NoWalk
    /\ faulty = FALSE

OffsetSpec == OffsetInit /\ [][Next]_vars

\* the boundary scenario: capacity ScenarioCap over a stream pre-filled with
\* ScenarioLen known bytes
BoundaryInit == InitWith(FALSE, {ScenarioLen}, {ScenarioCap})

BoundarySpec == BoundaryInit /\ [][Next]_vars

TypeOK ==
    /\ pos >= n
    /\ buffer.pos <= buffer.filled
    /\ buffer.filled <= capacity(buffer)
    /\ owner \in {"adapter", "dropped", "caller"}

\* the adapter's fields as a machine, for position() of the current state
Self == [pos |-> pos, n |-> n, buffer |-> buffer]

\* ------------------------------------------------------------- the claims
IsPrefix(s, t) == Len(s) <= Len(t) /\ SubSeq(t, 1, Len(s)) = s

\* C1: while every call has returned Ok, each read returns bytes the bare
\* stream returns for the same call sequence (a read may stop short of what
\* the bare stream returns, a read_exact returns all of it).
C1_ReadsMatchUnbuffered ==
    (clean /\ op.kind \in {"read", "read_exact"}) =>
        IF op.kind = "read" THEN IsPrefix(op.out, op.expect) ELSE op.out = op.expect

\* C2: after read / read_exact / write / write_all / seek calls that all
\* returned Ok, followed by flush(), the stream holds what the bare stream
\* holds after the same calls.
C2_FlushedContentsMatchUnbuffered ==
    (clean /\ op.kind = "flush" /\ flushes = 1) => inner.bytes = ref.bytes

\* C3: after reads, writes and seeks that all returned Ok, position() is the
\* cursor of the bare stream.
C3_PositionIsLogicalPosition ==
    (clean /\ flushes = 0 /\ owner = "adapter") => position(Self) = ref.pos

\* C4: write_all(buf), seek(Start(position before the write)), read_exact of
\* Len(buf) bytes: the bytes read are buf.
C4_RoundTrip ==
    (clean /\ trip.stage = 3) => op.out = trip.buf

\* C5: read_exact returns Ok only if the whole slice was filled.
C5_ReadExactOkFillsAll ==
    (op.kind = "read_exact" /\ op.err = "none") => Len(op.out) = op.len

\* C6: write_all returns Ok only if every byte of the slice was accepted.
C6_WriteAllOkAcceptsAll ==
    (op.kind = "write_all" /\ op.err = "none") => op.r = op.len

\* target lies in [start_position_in_source, start_position_in_source + filled)
InWindow(target) ==
    /\ pos - n <= target
    /\ target < pos - n + buffer.filled

\* the absolute offset a seek asks for (from-start and from-current)
SeekTarget(whence, off) ==
    IF whence = "Start" THEN off ELSE pos - n + buffer.pos + off

\* C7: a from-start or from-current seek whose target lies inside the
\* buffered window returns Ok, makes no call on the stream and changes
\* nothing but the buffer cursor, which lands on the target.
C7_InWindowSeekMovesOnlyCursor ==
    [][(/\ op'.kind = "seek"
        /\ op'.whence \in {"Start", "Current"}
        /\ InWindow(SeekTarget(op'.whence, op'.off)))
       => (/\ op'.err = "none"
           /\ io' = <<>>
           /\ inner' = inner
           /\ pos' = pos
           /\ n' = n
           /\ buffer' = [buffer EXCEPT
                            !.pos = SeekTarget(op'.whence, op'.off) - (pos - n)])]_vars

\* a seek was resolved inside a dirty buffer, backward and forward
C7_Witness ==
    /\ op.kind = "seek" /\ op.cmd = "InBuffer" /\ op.whence = "Current" /\ op.off < 0
    /\ buffer.is_dirty /\ buffer.filled >= 2 /\ io = <<>>

\* the dumps (write_all of the buffer) among the calls of a log
Dumps(log) == SelectSeq(log, LAMBDA e : e.call = "write_all")

\* no read of the stream comes before the first dump of a log
DumpBeforeRead(log) ==
    \A i \in 1..Len(log) :
        log[i].call = "read" => \E j \in 1..(i - 1) : log[j].call = "write_all"

\* the last call wrote op.len < capacity bytes into an empty buffer
WroteIntoEmptyBuffer ==
    /\ op.kind \in {"write", "write_all"} /\ op.cmd = "Write" /\ op.err = "none"
    /\ n = 0 /\ buffer.pos = op.len /\ buffer.filled = op.len

\* C8: after a write of fewer than capacity bytes into an empty buffer, a
\* read dumps the buffer exactly once, before it reads the stream, and the
\* written bytes are in the stream at the offset they were written at (the
\* bare stream's cursor before the write) and nowhere else.
C8_BoundaryDirtyFlush ==
    [][(/\ clean /\ WroteIntoEmptyBuffer
        /\ op'.kind \in {"read", "read_exact"} /\ op'.err = "none")
       => (/\ Len(Dumps(io')) = 1
           /\ DumpBeforeRead(io')
           /\ inner'.bytes = Splice(inner.bytes, ref.pos - op.len, op.buf))]_vars

\* data[0..filled] is in the stream s from offset at on
BufferLandedAt(s, at) ==
    /\ at >= 0
    /\ Len(s) >= at + buffer.filled
    /\ SubSeq(s, at + 1, at + buffer.filled) = SubSeq(buffer.data, 1, buffer.filled)

\* C9: after flush() returned Ok the buffer is empty and clean, n = 0, the
\* stream's own flush was called last, and the dirty bytes are in the stream
\* at their logical offsets: when they were put into an empty buffer by the
\* preceding write, from the bare stream's cursor before that write on.
C9_FlushWritesAndClears ==
    [][(clean /\ op'.kind = "flush" /\ op'.err = "none")
       => (/\ buffer'.pos = 0 /\ buffer'.filled = 0 /\ ~buffer'.is_dirty /\ n' = 0
           /\ io' # <<>> /\ io'[Len(io')].call = "flush" /\ io'[Len(io')].ok
           /\ WroteIntoEmptyBuffer => BufferLandedAt(inner'.bytes, ref.pos - op.len))]_vars

\* C10: dropping the adapter reports no error; with a clean buffer it makes
\* no call on the stream; with a dirty buffer the buffered bytes are in the
\* stream at their logical offsets before the stream is released: when they
\* were put into an empty buffer by the preceding write, from the bare
\* stream's cursor before that write on.
C10_DropFlushesDirtyBuffer ==
    [][(clean /\ op'.kind = "drop")
       => (/\ op'.err = "none"
           /\ ~buffer.is_dirty => io' = <<>>
           /\ WroteIntoEmptyBuffer => BufferLandedAt(inner'.bytes, ref.pos - op.len))]_vars

\* the errors that come from a call on the stream
StreamErrors == {"io", "invalid_input"}

\* every call a log made on the stream succeeded
AllOk(log) == \A i \in 1..Len(log) : log[i].ok

\* data[0..filled] of the buffer b is in the stream s where the (first) dump
\* of the log put it
DumpLanded(log, b, s) ==
    LET at == Dumps(log)[1].at
    IN /\ Len(s) >= at + b.filled
       /\ SubSeq(s, at + 1, at + b.filled) = SubSeq(b.data, 1, b.filled)

\* C11: into_inner returns Ok exactly when no call on the stream failed;
\* when it returns Ok the stream goes to the caller, a dirty buffer was
\* dumped exactly once (its bytes are in the stream) and a clean buffer was
\* not dumped; the adapter is not dropped after it.
C11_IntoInnerFlushesOnce ==
    [][op'.kind = "into_inner"
       => (/\ (op'.err = "none") <=> AllOk(io')
           /\ op'.err # "none" => op'.err \in StreamErrors
           /\ op'.err = "none" =>
                 (/\ owner' = "caller"
                  /\ op'.swallowed = "none"
                  /\ Len(Dumps(io')) = (IF buffer.is_dirty THEN 1 ELSE 0)
                  /\ buffer.is_dirty => DumpLanded(io', buffer, inner'.bytes)))]_vars

\* into_inner handed out the stream after seeking back and dumping a dirty
\* buffer that had been filled by a read
C11_Witness ==
    /\ op.kind = "into_inner" /\ op.err = "none" /\ owner = "caller"
    /\ buffer.is_dirty /\ Len(io) = 2 /\ Len(Dumps(io)) = 1

\* C12: a from-current seek backward by more than position() returns the
\* error "Seeking before start", makes no call on the stream and changes no
\* field of the adapter.
C12_SeekBeforeStartRejected ==
    [][(/\ op'.kind = "seek" /\ op'.whence = "Current"
        /\ op'.off < 0 /\ 0 - op'.off > position(Self))
       => (/\ op'.err = "seeking_before_start"
           /\ io' = <<>>
           /\ inner' = inner /\ pos' = pos /\ n' = n /\ buffer' = buffer)]_vars

\* a seek before offset 0 was rejected with bytes in the buffer and the
\* logical position past 0
C12_Witness ==
    /\ op.kind = "seek" /\ op.err = "seeking_before_start" /\ op.off < 0
    /\ buffer.filled > 0 /\ position(Self) > 0 /\ 0 - op.off = position(Self) + 1

\* the last call was a seek that returned Ok after calls that all returned Ok
SeekReturned == clean' /\ op'.kind = "seek" /\ op'.err = "none"

\* C13: a seek that returns Ok returns position() as it is after the call;
\* that value is p for Start(p), position() before the call plus d for
\* Current(d), and the length of the bare stream (which holds every write)
\* plus o for End(o).
C13_SeekReturnsNewPosition ==
    [][SeekReturned
       => (/\ op'.r = position(Self')
           /\ op'.whence = "Start" => op'.r = op'.off
           /\ op'.whence = "Current" => op'.r = position(Self) + op'.off
           /\ op'.whence = "End" => op'.r = Len(ref.bytes) + op'.off)]_vars

\* the calls of a log made by the bypass branch of write
Directs(log) == SelectSeq(log, LAMBDA e : e.call = "write" /\ e.by = "direct")

\* the last call was a write of at least capacity bytes that returned Ok
\* after calls that all returned Ok
BypassWriteReturned ==
    /\ clean' /\ op'.kind \in {"write", "write_all"} /\ op'.err = "none"
    /\ op'.len >= capacity(buffer)

\* C14: a write of at least capacity bytes leaves data untouched, makes one
\* write on the stream, last, at the logical position held before the call
\* (the bare stream's cursor), dumps the buffer before it exactly when the
\* buffer was dirty, and leaves the buffer clean with no valid bytes.
C14_BypassWrite ==
    [][BypassWriteReturned
       => (/\ buffer'.data = buffer.data
           /\ Len(Directs(io')) = 1 /\ io'[Len(io')].by = "direct"
           /\ Directs(io')[1].at = ref.pos
           /\ Len(Dumps(io')) = (IF buffer.is_dirty THEN 1 ELSE 0)
           /\ ~buffer'.is_dirty /\ buffer'.filled = 0)]_vars

\* C15: when a call returns an error of the stream, pos, n and the buffer's
\* cursor, filled and dirty flag are what they were before the call.
C15_ErrorLeavesBookkeeping ==
    [][(op'.err \in StreamErrors /\ owner' = "adapter")
       => (/\ ~AllOk(io')
           /\ pos' = pos /\ n' = n
           /\ buffer'.pos = buffer.pos
           /\ buffer'.filled = buffer.filled
           /\ buffer'.is_dirty = buffer.is_dirty)]_vars

\* the seek back and the read of a round trip whose write_all found the
\* buffer empty: the seek makes no call on the stream; the read of Len(buf)
\* bytes makes none either, returns buf and leaves the buffer dirty
InPlaceStep ==
    /\ (trip.stage = 1 /\ op'.kind = "seek" /\ op'.whence = "Start" /\ op'.off = trip.at)
         => (op'.err = "none" /\ io' = <<>> /\ buffer'.is_dirty)
    /\ (trip.stage = 2 /\ op'.kind \in {"read", "read_exact"} /\ op'.len = Len(trip.buf))
         => (op'.err = "none" /\ io' = <<>> /\ op'.out = trip.buf /\ buffer'.is_dirty)

\* C16 as stated: after write_all of k <= capacity bytes with the buffer
\* empty, seeking to their start and reading k bytes returns them with no
\* call on the stream, and the buffer stays dirty.
C16_AtMostCapacity ==
    [][(trip.empty /\ Len(trip.buf) <= capacity(buffer)) => InPlaceStep]_vars

\* C16, amended: the same for k < capacity (a write of capacity bytes goes
\* to the stream, not into the buffer).
C16_ReadableInPlace ==
    [][(trip.empty /\ Len(trip.buf) < capacity(buffer)) => InPlaceStep]_vars

\* two bytes written into an empty buffer of capacity 3 over a non-empty
\* stream were read back by read_exact with no call on the stream
C16_Witness ==
    /\ trip.stage = 3 /\ trip.empty /\ Len(trip.buf) = 2 /\ capacity(buffer) = 3
    /\ op.kind = "read_exact" /\ op.out = trip.buf /\ io = <<>> /\ buffer.is_dirty
    /\ Len(inner.bytes) > 0 /\ trip.at > 0

\* the refills (reads into the buffer) among the calls of a log
Fills(log) == SelectSeq(log, LAMBDA e : e.call = "read" /\ e.by = "fill")

\* the bytes at 0-based offsets capacity - 1 and capacity of the stream
\* (bytes 7 and 8 for capacity 8)
BoundaryBytes == SubSeq(inner.bytes, capacity(buffer), capacity(buffer) + 1)

\* C17 as stated: after a first read of 1 byte and a seek forward by
\* capacity - 1 (by 7 for capacity 8, to the end of the buffer), a read of 2
\* bytes makes exactly one refill and returns bytes 7 and 8.
C17_SeekToBoundary ==
    (walk.stage = 3 /\ walk.off = capacity(buffer) - 1)
        => (Len(Fills(io)) = 1 /\ op.out = BoundaryBytes)

\* C17, amended: after a first read of 1 byte and a seek forward by
\* capacity - 2 (by 6 for capacity 8, to the last byte of the buffer), a
\* read_exact of 2 bytes makes exactly one refill and returns bytes 7 and 8.
C17_ReadAcrossBoundary ==
    (walk.stage = 3 /\ walk.off = capacity(buffer) - 2 /\ op.kind = "read_exact")
        => (Len(Fills(io)) = 1 /\ Len(io) = 1 /\ op.out = BoundaryBytes)

\* the read_exact of 2 bytes across the boundary returned bytes 7 and 8 of
\* the 20 after one refill
C17_Witness ==
    /\ walk.stage = 3 /\ walk.off = capacity(buffer) - 2 /\ op.kind = "read_exact"
    /\ op.cmd = "ReadFillRead" /\ op.out = BoundaryBytes /\ Len(op.out) = 2
    /\ Len(Fills(io)) = 1 /\ capacity(buffer) = ScenarioCap /\ Len(inner.bytes) = ScenarioLen

\* the first call on the adapter was a write of more than capacity bytes
\* that returned Ok
FirstWriteBeyondCapacity ==
    /\ calls = 1 /\ op.kind \in {"write", "write_all"} /\ op.err = "none"
    /\ op.len > capacity(buffer)

\* C18 as stated: of a first write of more than capacity bytes, the first
\* capacity bytes are in the stream from offset 0 on and the rest, when it
\* fits, is in the buffer, dirty.
C18_LargeWriteSplits ==
    (FirstWriteBeyondCapacity /\ op.len - capacity(buffer) < capacity(buffer))
        => (/\ SubSeq(inner.bytes, 1, capacity(buffer)) = SubSeq(op.buf, 1, capacity(buffer))
            /\ buffer.is_dirty
            /\ buffer.filled = op.len - capacity(buffer)
            /\ SubSeq(buffer.data, 1, buffer.filled)
                 = SubSeq(op.buf, capacity(buffer) + 1, op.len))

\* C18, amended: a first write of more than capacity bytes makes one write
\* on the stream, of the whole slice at offset 0; all its bytes are in the
\* stream and the buffer is as constructed: empty, clean, data untouched.
C18_LargeWriteBypasses ==
    FirstWriteBeyondCapacity
        => (/\ io = <<[call |-> "write", by |-> "direct", at |-> 0, len |-> op.len, ok |-> TRUE]>>
            /\ op.r = op.len
            /\ SubSeq(inner.bytes, 1, op.len) = op.buf
            /\ buffer = Buffer_with_capacity(capacity(buffer)))

\* three bytes were written through a buffer of capacity 2 over a stream
\* that held three others
C18_Witness ==
    /\ FirstWriteBeyondCapacity /\ op.len = 3 /\ capacity(buffer) = 2
    /\ inner.bytes = op.buf /\ inner.pos = 3 /\ ~buffer.is_dirty /\ buffer.filled = 0

\* the last call, a read, read_exact, write or write_all, was executed as
\* one call of the stream with the caller's slice and nothing else
ExecutedAsBypass ==
    /\ op.kind \in {"read", "read_exact"}
          => (/\ op.cmd = "ReadDirect"
              /\ Len(io) = 1 /\ io[1].call = "read" /\ io[1].by = "direct"
              /\ io[1].len <= op.len)
    /\ op.kind \in {"write", "write_all"}
          => (/\ op.cmd = "WriteDirect"
              /\ Len(io) = 1 /\ io[1].call = "write" /\ io[1].by = "direct"
              /\ io[1].len <= op.len)

\* C19: an adapter of capacity 0 is constructed, executes every read,
\* read_exact and write as a bypass of the stream, and its buffer is empty
\* and clean in every reachable state.
C19_ZeroCapacityBypasses ==
    capacity(buffer) = 0
        => (/\ buffer = Buffer_with_capacity(0)
            /\ owner = "adapter" => ExecutedAsBypass)

\* two bytes were written and then read back through an adapter of
\* capacity 0
C19_Witness ==
    /\ capacity(buffer) = 0 /\ calls >= 3
    /\ op.kind = "read_exact" /\ op.len = 2 /\ op.out = <<11, 12>>
    /\ op.cmd = "ReadDirect" /\ inner.bytes = <<11, 12>>

\* the bytes of the stream in the range [start_position_in_source,
\* start_position_in_source + filled), when the stream has them all
MirroredRegion ==
    SubSeq(inner.bytes, start_position_in_source(Self) + 1,
           start_position_in_source(Self) + buffer.filled)

\* C20: whenever the buffer is not dirty, its valid bytes data[0..filled]
\* are the bytes of the stream at [start_position_in_source,
\* start_position_in_source + filled), also after bypass reads and writes.
C20_CleanBufferMirrorsStream ==
    (owner = "adapter" /\ ~buffer.is_dirty /\ buffer.filled > 0)
        => (/\ start_position_in_source(Self) + buffer.filled <= Len(inner.bytes)
            /\ SubSeq(buffer.data, 1, buffer.filled) = MirroredRegion)

\* C21: after every call that returned Ok the tracked cursor pos is the
\* cursor of the stream, and the debug assertion of flush_buffer on the
\* position the seek back returned did not fail.
C21_PosIsStreamCursor ==
    (owner = "adapter" /\ op.err = "none")
        => (pos = inner.pos /\ "flush_buffer:pos" \notin op.dbg)

\* cursor <= filled <= capacity
CursorWithinFilled == buffer.pos <= buffer.filled /\ buffer.filled <= capacity(buffer)

\* C22: in every reachable state cursor <= filled <= capacity, and no step
\* changes the capacity the buffer was constructed with.
C22_CursorFilledCapacity ==
    []CursorWithinFilled /\ [][capacity(buffer') = capacity(buffer)]_vars

\* writes filled the buffer up to its capacity: the cursor, filled and the
\* capacity coincide
C22_Witness ==
    /\ calls >= 2 /\ buffer.is_dirty /\ capacity(buffer) = MaxCap
    /\ buffer.pos = buffer.filled /\ buffer.filled = capacity(buffer)

\* C23: in every reachable state n <= filled and pos >= n, and the debug
\* assertion of flush_buffer that the dump wrote at least n bytes did not
\* fail in the last call.
C23_FetchedWithinFilled ==
    owner = "adapter"
        => (/\ n <= buffer.filled
            /\ pos >= n
            /\ "flush_buffer:n" \notin op.dbg)

LeavingCommands ==
    {"FillRead", "ReadDirect", "ReadFillRead", "ReadReadDirect",
     "WriteDumpWrite", "DumpWriteDirect", "WriteDirect", "Delegate"}

\* this step is a read, read_exact, write or seek that returned Ok after
\* refilling, clearing or bypassing the buffer
LeftBuffer ==
    /\ op'.kind \in {"read", "read_exact", "write", "write_all", "seek"}
    /\ op'.cmd \in LeavingCommands
    /\ op'.err = "none"

\* only the seek back of flush_buffer comes before the dump of a log
DumpComesFirst(log) ==
    \A i \in 1..Len(log) :
        log[i].by = "dump" => \A k \in 1..(i - 1) : log[k].by = "flush_buffer"

\* C25: when a read, read_exact, write or seek refills, clears or bypasses a
\* dirty buffer, the buffer's bytes are dumped first, once, at
\* start_position_in_source; a read or read_exact that refills or bypasses
\* makes a dump iff the buffer is dirty.
C25_DirtyBufferDumpedFirst ==
    [][LeftBuffer
       => (/\ buffer.is_dirty
                => (/\ Len(Dumps(io')) = 1
                    /\ DumpComesFirst(io')
                    /\ Dumps(io')[1].at = start_position_in_source(Self))
           /\ op'.kind \in {"read", "read_exact"}
                => (Len(Dumps(io')) = 1 <=> buffer.is_dirty))]_vars

\* the log of a flush_buffer that started with n bytes fetched and filled
\* valid bytes: the seek back by n when n # 0, then the dump
FlushBufferLog(log) ==
    /\ Len(log) = (IF n # 0 THEN 2 ELSE 1)
    /\ n # 0 => (log[1].call = "seek" /\ log[1].by = "flush_buffer")
    /\ log[Len(log)].by = "dump"
    /\ log[Len(log)].len = buffer.filled
    /\ n # 0 => log[2].at = log[1].at - n

\* C26: flush_buffer seeks the stream back by exactly n when n # 0, writes
\* data[0..filled] at start_position_in_source, sets n = filled and
\* pos = start_position_in_source + filled, and leaves the buffer and
\* position() unchanged.
C26_FlushBufferFrame ==
    [][(op'.kind = "flush_buffer" /\ op'.err = "none")
       => (/\ FlushBufferLog(io')
           /\ buffer.filled > 0
                => (/\ Dumps(io')[1].at = start_position_in_source(Self)
                    /\ DumpLanded(io', buffer, inner'.bytes))
           /\ n' = buffer.filled
           /\ pos' = start_position_in_source(Self) + buffer.filled
           /\ buffer' = buffer
           /\ position(Self') = position(Self))]_vars

\* C27: flush() that returned Ok leaves position() where it was, whatever
\* the buffer held.
C27_FlushKeepsPosition ==
    [][(op'.kind = "flush" /\ op'.err = "none")
       => position(Self') = position(Self)]_vars

\* this step is a split write that puts bytes into the buffer before it
\* dumps it
WritesBeforeDump ==
    /\ op'.kind \in {"write", "write_all"}
    /\ op'.cmd = "WriteDumpWrite"
    /\ num_writable_bytes_left(buffer) > 0

\* the calls of flush_buffer that move or write the stream: its seek back
\* and its dump of at least one byte (write_all of an empty slice makes no
\* call of write)
FlushBufferCalls(log) ==
    SelectSeq(log, LAMBDA e : e.by = "flush_buffer" \/ (e.by = "dump" /\ e.len > 0))

\* C28: a call that finds the buffer not dirty, and does not write into it
\* first, writes no buffered byte to the stream and makes no seek back.
C28_CleanBufferNotDumped ==
    [][(~buffer.is_dirty /\ ~WritesBeforeDump) => FlushBufferCalls(io') = <<>>]_vars

\* the reads of the stream in a log
ReadsOf(log) == SelectSeq(log, LAMBDA e : e.call = "read")

\* the bytes the (first) read of the stream in a log fetched, the stream
\* holding the bytes s
FetchedFrom(log, s) ==
    SubSeq(s, ReadsOf(log)[1].at + 1, ReadsOf(log)[1].at + ReadsOf(log)[1].len)

\* the bytes the read of the stream of this step fetched
Fetched(log) == FetchedFrom(log, inner'.bytes)

\* this step is a read(dst) that returned Ok
ReadReturned == op'.kind = "read" /\ op'.err = "none"

\* read with unread bytes in the buffer: min(dst.len(), unread) bytes are
\* copied from the buffer, with no call on the stream
ServedFromBuffer(k) ==
    /\ io' = <<>>
    /\ op'.r = k
    /\ op'.out = SubSeq(buffer.data, buffer.pos + 1, buffer.pos + k)
    /\ buffer' = [buffer EXCEPT !.pos = @ + k]
    /\ pos' = pos /\ n' = n

\* read of at least capacity bytes with nothing unread: one read of the
\* stream, into dst; the buffer becomes b and pos advances from base by the
\* bytes fetched
ReadBypass(b, base) ==
    /\ Len(ReadsOf(io')) = 1 /\ ReadsOf(io')[1].by = "direct"
    /\ io'[Len(io')].call = "read"
    /\ op'.out = Fetched(io')
    /\ op'.r = Len(op'.out)
    /\ buffer' = b
    /\ pos' = base + Len(op'.out)

\* read of less than capacity bytes with nothing unread: one read of the
\* stream refills the buffer, dst is served from it, and pos advances from
\* base by the bytes fetched
ReadRefill(base) ==
    /\ Len(ReadsOf(io')) = 1 /\ ReadsOf(io')[1].by = "fill"
    /\ io'[Len(io')].call = "read"
    /\ buffer'.filled = Len(Fetched(io'))
    /\ SubSeq(buffer'.data, 1, buffer'.filled) = Fetched(io')
    /\ ~buffer'.is_dirty
    /\ op'.out = SubSeq(Fetched(io'), 1, Min(op'.len, buffer'.filled))
    /\ op'.r = Len(op'.out)
    /\ buffer'.pos = op'.r
    /\ n' = buffer'.filled
    /\ pos' = base + buffer'.filled

\* C29 as stated: read serves unread bytes from the buffer; with nothing
\* unread a read of at least capacity bytes goes to the stream without
\* touching the buffer, a shorter one refills the buffer; pos advances by
\* exactly the number of bytes fetched.
C29_ReadClassification ==
    [][ReadReturned
       => IF has_readable_bytes_left(buffer)
          THEN ServedFromBuffer(Min(op'.len, num_readable_bytes_left(buffer)))
          ELSE IF op'.len >= capacity(buffer)
          THEN ReadBypass(buffer, pos)
          ELSE ReadRefill(pos)]_vars

\* pos before the fetch of a read: a dirty buffer is dumped first, which
\* leaves pos at the end of the dumped region
PosBeforeFetch ==
    IF buffer.is_dirty THEN flush_buffer(Machine(NoFault)).pos ELSE pos

\* C29, amended: as stated, but a dirty buffer is dumped and cleared before
\* the bypass or the refill, and pos advances by the bytes fetched from the
\* value the dump left.
C29_ReadAfterDump ==
    [][ReadReturned
       => IF has_readable_bytes_left(buffer)
          THEN ServedFromBuffer(Min(op'.len, num_readable_bytes_left(buffer)))
          ELSE IF op'.len >= capacity(buffer)
          THEN ReadBypass(IF buffer.is_dirty THEN Buffer_clear(buffer) ELSE buffer,
                          PosBeforeFetch)
          ELSE ReadRefill(PosBeforeFetch)]_vars

\* a read refilled a dirty buffer: the written byte was dumped, two bytes
\* were fetched and pos advanced by three
C29_Witness ==
    /\ op.kind = "read" /\ op.err = "none" /\ op.cmd = "FillRead"
    /\ Len(Dumps(io)) = 1 /\ Dumps(io)[1].len = 1
    /\ Len(ReadsOf(io)) = 1 /\ ReadsOf(io)[1].len = 2
    /\ calls = 2 /\ pos = 3 /\ n = 2

\* this step is a read_exact(dst) that returned Ok
ReadExactReturned == op'.kind = "read_exact" /\ op'.err = "none"

\* read_exact of more bytes than the unread ones: these are copied to the
\* front of dst, a dirty buffer (and no other) is dumped before the stream
\* is read, and the rest of dst comes from one refill (request < capacity)
\* or one direct read (request >= capacity)
Straddles(unread) ==
    /\ SubSeq(op'.out, 1, unread) = SubSeq(buffer.data, buffer.pos + 1, buffer.filled)
    /\ Len(Dumps(io')) = (IF buffer.is_dirty THEN 1 ELSE 0)
    /\ DumpComesFirst(io')
    /\ buffer.is_dirty => buffer'.filled = (IF op'.len < capacity(buffer) THEN Len(Fetched(io')) ELSE 0)
    /\ Len(ReadsOf(io')) = 1
    /\ ReadsOf(io')[1].by = (IF op'.len < capacity(buffer) THEN "fill" ELSE "direct")
    /\ SubSeq(op'.out, unread + 1, Len(op'.out))
         = SubSeq(Fetched(io'), 1, Min(op'.len - unread, Len(Fetched(io'))))

\* C30: read_exact of at most the unread bytes is served from the buffer
\* with no call on the stream; one of more than the unread bytes first
\* copies every unread byte, then gets the rest by one refill or one direct
\* read, after a dump iff the buffer is dirty.
C30_ReadExactSplit ==
    [][ReadExactReturned
       => IF op'.len <= num_readable_bytes_left(buffer)
          THEN ServedFromBuffer(op'.len)
          ELSE Straddles(num_readable_bytes_left(buffer))]_vars

\* this step is a write or write_all that returned Ok
WriteReturned == op'.kind \in {"write", "write_all"} /\ op'.err = "none"

\* the slice of this step was copied into the buffer at the cursor and
\* nothing else happened: no call on the stream, the buffer dirty, the
\* cursor advanced by the length, filled = max(old filled, new cursor)
CopiedIntoBuffer ==
    /\ io' = <<>>
    /\ inner' = inner /\ pos' = pos /\ n' = n
    /\ op'.r = op'.len
    /\ buffer'.is_dirty
    /\ buffer'.pos = buffer.pos + op'.len
    /\ buffer'.filled = Max(buffer.filled, buffer'.pos)
    /\ buffer'.data = [i \in 1..capacity(buffer) |->
                          IF i > buffer.pos /\ i <= buffer.pos + op'.len
                          THEN op'.buf[i - buffer.pos] ELSE buffer.data[i]]

SplitWrite ==
    /\ WriteReturned
    /\ num_writable_bytes_left(buffer) < op'.len
    /\ op'.len < capacity(buffer)

\* the buffer of this state once the first room bytes of src are in it
FilledUp(src, room) ==
    [buffer EXCEPT !.data = [i \in 1..Len(@) |->
                               IF i > buffer.pos THEN src[i - buffer.pos] ELSE @[i]],
                   !.filled = capacity(buffer)]

\* the full buffer was dumped to the stream once, behind at most the seek
\* back of flush_buffer, and nothing else was called on the stream
DumpedFullOnce(log, src, room) ==
    /\ Len(Dumps(log)) = 1
    /\ FlushBufferCalls(log) = log
    /\ Dumps(log)[1].len = capacity(buffer)
    /\ DumpLanded(log, FilledUp(src, room), inner'.bytes)

\* the buffer holds the bytes of src behind the first room ones, and
\* nothing else
HoldsSuffix(src, room) ==
    /\ buffer'.is_dirty
    /\ buffer'.pos = Len(src) - room
    /\ buffer'.filled = Len(src) - room
    /\ SubSeq(buffer'.data, 1, Len(src) - room) = SubSeq(src, room + 1, Len(src))
    /\ n' = 0

\* C32: a write longer than the remaining writable capacity and shorter
\* than capacity fills the buffer with its prefix, dumps the full buffer
\* once, clears it and copies the suffix into it; it returns the full
\* length, leaves the buffer dirty with filled = cursor = suffix length and
\* start_position_in_source advanced by capacity.
C32_SplitWrite ==
    [][SplitWrite
       => (/\ op'.cmd = "WriteDumpWrite"
           /\ op'.r = op'.len
           /\ DumpedFullOnce(io', op'.buf, num_writable_bytes_left(buffer))
           /\ HoldsSuffix(op'.buf, num_writable_bytes_left(buffer))
           /\ start_position_in_source(Self')
                = start_position_in_source(Self) + capacity(buffer))]_vars

\* this step is a seek that returned Ok, from the end or from the start to
\* an offset outside the buffered window
AbsoluteSeekLeft ==
    /\ op'.kind = "seek" /\ op'.err = "none"
    /\ \/ op'.whence = "End"
       \/ op'.whence = "Start" /\ ~in_mem_range(Self, op'.off)

\* the calls of a log on the stream that are not flush_buffer's
OwnCalls(log) == SelectSeq(log, LAMBDA e : e.by \notin {"flush_buffer", "dump"})

\* C33: a from-start seek to a target outside the buffered window, and every
\* from-end seek, dumps the buffer iff it is dirty, then seeks the stream
\* once and leaves the buffer empty and clean, n = 0 and pos, hence
\* start_position_in_source and position(), equal to the position the
\* stream's seek reported.
C33_AbsoluteSeekResets ==
    [][AbsoluteSeekLeft
       => (/\ buffer.is_dirty <=> Len(Dumps(io')) = 1
           /\ ~buffer.is_dirty => FlushBufferCalls(io') = <<>>
           /\ buffer.is_dirty => DumpLanded(io', buffer, inner'.bytes)
           /\ Len(OwnCalls(io')) = 1
           /\ io'[Len(io')].call = "seek" /\ io'[Len(io')].by = "seek"
           /\ op'.whence = "Start" => inner'.pos = op'.off
           /\ op'.whence = "End" => inner'.pos = Len(inner'.bytes) + op'.off
           /\ buffer'.filled = 0 /\ buffer'.pos = 0 /\ ~buffer'.is_dirty
           /\ n' = 0
           /\ pos' = inner'.pos
           /\ op'.r = inner'.pos
           /\ start_position_in_source(Self') = inner'.pos
           /\ position(Self') = inner'.pos)]_vars

\* a from-end seek dumped a dirty buffer and left it empty, the stream's
\* cursor before the end of the stream
C33_Witness ==
    /\ op.kind = "seek" /\ op.whence = "End" /\ op.off < 0 /\ op.err = "none"
    /\ Len(Dumps(io)) = 1 /\ Dumps(io)[1].len > 0
    /\ buffer.filled = 0 /\ n = 0
    /\ pos = inner.pos /\ op.r = pos /\ pos > 0

\* this step is a seek from the current position, by a non-zero offset,
\* that returned Ok
RelativeSeek ==
    /\ op'.kind = "seek" /\ op'.whence = "Current" /\ op'.off # 0
    /\ op'.err = "none"

\* the target of a seek from the current position by off is outside the
\* buffered window: backward by more than the buffer cursor, or forward by
\* at least the number of unread bytes
OutsideWindow(off) ==
    \/ off < 0 /\ 0 - off > buffer.pos
    \/ off > 0 /\ off >= num_readable_bytes_left(buffer)

\* C34: a seek from the current position to a target outside the buffered
\* window dumps the buffer iff it is dirty, leaves it empty and clean and
\* seeks the stream so that the new logical position is the old one plus
\* the offset; a seek to a target inside the window only moves the buffer
\* cursor.
C34_RelativeSeek ==
    [][RelativeSeek
       => IF OutsideWindow(op'.off)
          THEN /\ buffer.is_dirty <=> Len(Dumps(io')) = 1
               /\ ~buffer.is_dirty => FlushBufferCalls(io') = <<>>
               /\ Len(OwnCalls(io')) = 1
               /\ io'[Len(io')].call = "seek" /\ io'[Len(io')].by = "seek"
               /\ buffer'.filled = 0 /\ buffer'.pos = 0 /\ ~buffer'.is_dirty
               /\ position(Self') = position(Self) + op'.off
               /\ op'.r = position(Self')
          ELSE /\ io' = <<>>
               /\ buffer' = [buffer EXCEPT !.pos = @ + op'.off]
               /\ pos' = pos /\ n' = n /\ inner' = inner
               /\ position(Self') = position(Self) + op'.off
               /\ op'.r = position(Self')]_vars

\* this step is a seek(Current(0)) or a stream_position
AsksPosition ==
    \/ op'.kind = "stream_position"
    \/ op'.kind = "seek" /\ op'.whence = "Current" /\ op'.off = 0

\* C35: seek(Current(0)) and stream_position() return position(), make no
\* call on the stream and change nothing of the adapter, the buffer clean
\* or dirty.
C35_PositionQueryIsFree ==
    [][AsksPosition
       => (/\ op'.err = "none"
           /\ op'.r = position(Self)
           /\ io' = <<>>
           /\ inner' = inner
           /\ Self' = Self)]_vars

\* stream_position was asked with written bytes waiting in the buffer, not
\* at its start
C35_Witness ==
    /\ op.kind = "stream_position" /\ op.err = "none"
    /\ buffer.is_dirty /\ buffer.pos > 0 /\ n > 0
    /\ op.r = position(Self) /\ op.r = pos - n + buffer.pos
    /\ io = <<>>

\* the last call was a seek(Start(p)) that returned Ok, to an offset inside
\* the stream, and this step is a read or read_exact that returned Ok
ReadsAfterSeekStart ==
    /\ op.kind = "seek" /\ op.whence = "Start" /\ op.err = "none"
    /\ op.off < Len(ref.bytes)
    /\ op'.kind \in {"read", "read_exact"} /\ op'.err = "none"

\* C36: the read that follows a seek(Start(p)) returns the bytes of the
\* stream from offset p on, wherever the stream's cursor was when the
\* adapter was built.
C36_SeekStartIsAbsolute ==
    [][ReadsAfterSeekStart
       => (/\ op'.out # <<>>
           /\ op'.out = SubSeq(ref.bytes, op.off + 1, op.off + Len(op'.out)))]_vars

\* this step is a read or read_exact that returned Ok after it refilled the
\* buffer
Refilled ==
    /\ op'.kind \in {"read", "read_exact"} /\ op'.err = "none"
    /\ Fills(io') # <<>>

\* the one refill of this step came after unread bytes had been served:
\* it is the last call on the stream, it asked for capacity bytes, and the
\* bytes it fetched are in the buffer from offset 0, filled their number,
\* the buffer clean, the cursor behind the rest bytes served from them
RefillFrame(unread, rest) ==
    /\ Len(Fills(io')) = 1 /\ Len(ReadsOf(io')) = 1
    /\ io'[Len(io')].by = "fill"
    /\ Fills(io')[1].len
         = Min(capacity(buffer), Max(0, Len(inner'.bytes) - Fills(io')[1].at))
    /\ unread < op'.len
    /\ buffer'.filled = Fills(io')[1].len
    /\ SubSeq(buffer'.data, 1, buffer'.filled) = Fetched(io')
    /\ ~buffer'.is_dirty
    /\ buffer'.pos = Min(rest, buffer'.filled)
    /\ op'.out = SubSeq(buffer.data, buffer.pos + 1, buffer.pos + unread)
                    \o SubSeq(Fetched(io'), 1, buffer'.pos)

\* C37: fill_from is called only when the buffer holds no unread byte (its
\* debug assertion never fails); a refill reads into the buffer from
\* offset 0, sets filled to the number of bytes read, the cursor to 0 and
\* dirty to false.
C37_RefillOnlyWhenDrained ==
    [][/\ "fill_from" \notin op'.dbg
       /\ Refilled
            => (/\ op'.kind = "read" => ~has_readable_bytes_left(buffer)
                /\ RefillFrame(num_readable_bytes_left(buffer),
                               op'.len - num_readable_bytes_left(buffer)))]_vars

\* a read_exact served the unread byte of the buffer, refilled it and
\* served a second byte from the refill
C37_Witness ==
    /\ op.kind = "read_exact" /\ op.cmd = "ReadFillRead" /\ op.err = "none"
    /\ op.len = 2 /\ Len(op.out) = 2
    /\ Len(Fills(io)) = 1 /\ Fills(io)[1].len >= 1
    /\ buffer.pos = 1 /\ ~buffer.is_dirty
    /\ op.out[2] = buffer.data[1]
    /\ "fill_from" \notin op.dbg

\* cmd is what the claim says get_read_exact_command gives for a request of
\* len bytes on the buffer of this state
ReadExactCommandAsClaimed(cmd, len) ==
    /\ cmd.tag # "FillRead"
    /\ len < capacity(buffer)
         => IF num_readable_bytes_left(buffer) >= len
            THEN cmd.tag = "Read"
            ELSE /\ cmd.tag = "ReadFillRead"
                 /\ cmd.split = num_readable_bytes_left(buffer)
                 /\ cmd.dump = buffer.is_dirty

\* C38: get_read_exact_command never gives FillRead: below capacity it
\* gives Read when the unread bytes cover the request and ReadFillRead with
\* split = unread (possibly 0) otherwise, so no read_exact takes the
\* FillRead branch.
C38_ReadExactNeverFillRead ==
    /\ \A len \in ReadLens :
          ReadExactCommandAsClaimed(get_read_exact_command(buffer, len), len)
    /\ op.kind = "read_exact" => op.cmd # "FillRead"

\* a read_exact of one byte found nothing unread, took ReadFillRead with an
\* empty first part and left n at the number of bytes fetched
C38_Witness ==
    /\ op.kind = "read_exact" /\ op.cmd = "ReadFillRead" /\ op.err = "none"
    /\ op.len = 1 /\ Len(op.out) = 1
    /\ Len(Fills(io)) = 1 /\ op.out = SubSeq(FetchedFrom(io, inner.bytes), 1, 1)
    /\ buffer.pos = 1 /\ buffer.filled >= 2 /\ n = buffer.filled

====
